---- MODULE Spec2Model ----
(***************************************************************************)
(* SMS Memory Agent (src/main.py): the /sms webhook handler, the pending   *)
(* URL table, the items table, the link detector and the reply formatter.  *)
(*                                                                         *)
(* Every inbound message is handled by its own request thread (Flask's     *)
(* threaded server); each call of get_pending_url / save_pending_url /     *)
(* save_item / handle_query opens its own sqlite3 connection on            *)
(* memories.db.  A SELECT runs outside any transaction; Python's sqlite3   *)
(* opens a transaction before the first DELETE/INSERT and holds SQLite's   *)
(* write lock until commit, so a write transaction is one atomic step and  *)
(* the SELECT of get_pending_url is a separate step from its DELETE.       *)
(* SpecLock alone takes the write transactions statement by statement and  *)
(* shows the connections that wait for the write lock.                     *)
(*                                                                         *)
(* Text is a sequence of one-character strings.  The token "U" stands for  *)
(* the URL scheme prefix (http:// or https://), which the regular          *)
(* expression of the program matches as a unit.                            *)
(***************************************************************************)
EXTENDS Integers, Sequences, FiniteSets, TLC

VARIABLES now, boot, tz, pending_urls, seq, superseded, returned, items, h, sent, arrived

vars == <<now, boot, tz, pending_urls, seq, superseded, returned, items, h, sent, arrived>>

(***************************************************************************)
(* Bounds of the model.                                                    *)
(***************************************************************************)
MaxMessages == 3
NumHandlers == 2
MaxTicks == 3
MaxLen == 8

(***************************************************************************)
(* Optional values: Python's None against a value.                         *)
(***************************************************************************)
None == [some |-> FALSE, v |-> <<>>]
Some(a) == [some |-> TRUE, v |-> a]

(***************************************************************************)
(* Time.  The clock counts minutes of UTC; tz is the offset of the         *)
(* server's local time zone in minutes.                                    *)
(***************************************************************************)
MinutesPerDay == 1440
TTL == 2
SpaceChar == 32
TChar == 84

TZOffsets == {-300, 0}
StartTimes == {2 * MinutesPerDay}
TTLStartTimes == StartTimes \cup {2 * MinutesPerDay + 720}

\* The text SQLite stores for DEFAULT CURRENT_TIMESTAMP at UTC minute t:
\* "YYYY-MM-DD HH:MM:SS", as <<date field, separator, time-of-day field>>.
\* The fields are zero-padded and of fixed width, so the text order within
\* a field is the numeric order; the separator is kept as its character code.
CurrentTimestamp(t) == <<t \div MinutesPerDay, SpaceChar, t % MinutesPerDay>>

\* datetime.isoformat() of the local time t: "YYYY-MM-DDTHH:MM:SS.ffffff".
IsoFormat(t) == <<t \div MinutesPerDay, TChar, t % MinutesPerDay>>

\* datetime.now(): the naive local time.
LocalNow == now + tz

\* SQLite's comparison of two TEXT values (memcmp order): a > b.
RECURSIVE TextGreater(_, _)
TextGreater(a, b) ==
    IF a = <<>> THEN FALSE
    ELSE IF b = <<>> THEN TRUE
    ELSE IF Head(a) # Head(b) THEN Head(a) > Head(b)
    ELSE TextGreater(Tail(a), Tail(b))

(***************************************************************************)
(* Text and the link detector.                                             *)
(***************************************************************************)
SchemeLen == 7
RemainderLimit == 5

Senders == {"A", "B"}

\* len() of a text: the scheme token counts for the characters of "http://".
RECURSIVE TextLen(_)
TextLen(s) == IF s = <<>> THEN 0
              ELSE (IF Head(s) = "U" THEN SchemeLen ELSE 1) + TextLen(Tail(s))

IsSpace(c) == c = " "

\* str.strip(): leading and trailing whitespace removed.
RECURSIVE LStrip(_)
LStrip(s) == IF s # <<>> /\ IsSpace(Head(s)) THEN LStrip(Tail(s)) ELSE s

RECURSIVE RStrip(_)
RStrip(s) == IF s # <<>> /\ IsSpace(s[Len(s)])
             THEN RStrip(SubSeq(s, 1, Len(s) - 1)) ELSE s

Strip(s) == RStrip(LStrip(s))

\* The regular expression https?://[^\s]+ matches at position i: the scheme
\* followed by at least one non-whitespace character.
UrlStartsAt(s, i) ==
    /\ i < Len(s)
    /\ s[i] = "U"
    /\ ~IsSpace(s[i + 1])

\* The greedy end of the match that starts at i.
RECURSIVE UrlEnd(_, _)
UrlEnd(s, j) == IF j < Len(s) /\ ~IsSpace(s[j + 1]) THEN UrlEnd(s, j + 1) ELSE j

\* re.findall(url_pattern, s): the non-overlapping matches, left to right.
RECURSIVE FindAllFrom(_, _)
FindAllFrom(s, i) ==
    IF i > Len(s) THEN <<>>
    ELSE IF UrlStartsAt(s, i)
         THEN <<SubSeq(s, i, UrlEnd(s, i + 1))>> \o FindAllFrom(s, UrlEnd(s, i + 1) + 1)
         ELSE FindAllFrom(s, i + 1)

FindAll(s) == FindAllFrom(s, 1)

\* re.sub(url_pattern, '', s): the text with every match removed.
RECURSIVE SubFrom(_, _)
SubFrom(s, i) ==
    IF i > Len(s) THEN <<>>
    ELSE IF UrlStartsAt(s, i)
         THEN SubFrom(s, UrlEnd(s, i + 1) + 1)
         ELSE <<s[i]>> \o SubFrom(s, i + 1)

RemoveUrls(s) == SubFrom(s, 1)

\* The first URL of a text, or None.
FirstUrl(s) == IF FindAll(s) # <<>> THEN Some(FindAll(s)[1]) ELSE None

\* Mutant: the text that remains without the URLs is measured with its
\* surrounding whitespace.
is_url_only_Unstripped(message) ==
    LET urls == FindAll(Strip(message))
        remaining == RemoveUrls(message)
    IN  IF urls # <<>> /\ TextLen(remaining) < RemainderLimit
        THEN <<TRUE, Some(urls[1])>>
        ELSE <<FALSE, IF urls # <<>> THEN Some(urls[1]) ELSE None>>

\* is_url_only(message) -> (bool, url or None)
is_url_only(message) ==
    LET urls == FindAll(Strip(message))
        remaining == Strip(RemoveUrls(message))
    IN  IF urls # <<>> /\ TextLen(remaining) < RemainderLimit
        THEN <<TRUE, Some(urls[1])>>
        ELSE <<FALSE, IF urls # <<>> THEN Some(urls[1]) ELSE None>>

\* The message bodies the transport delivers in the model.
LinkA == <<"U", "a">>
LinkB == <<"U", "b">>
Text5 == <<"a", "a", "a", "a", "a">>
MessageBodies == {LinkA, LinkB, Text5, Text5 \o <<" ">> \o LinkB}

\* Every text of at most MaxLen tokens: the scheme prefix, a letter, a space.
Alphabet == {"U", "a", " "}
DetectBodies == UNION {[1..n -> Alphabet] : n \in 0..MaxLen}

(***************************************************************************)
(* The pending_urls table.  A row carries, besides its columns, two        *)
(* history fields: at, the UTC minute of its insert, and prev, the id of   *)
(* the row of the same sender that its insert superseded (0: none).        *)
(* superseded is the set of the ids that save_pending_url has deleted and  *)
(* returned[id] counts the calls of get_pending_url that have returned the *)
(* url of row id.                                                          *)
(***************************************************************************)
NoRow == [id |-> 0, url |-> <<>>, sender |-> "", created_at |-> <<>>, at |-> 0, prev |-> 0]

RowsOf(rows, sender) == {r \in rows : r.sender = sender}

\* Mutant: the SELECT of get_pending_url without its condition on the sender.
SelectPending_AnySender(rows, sender, cutoff) ==
    LET match == {r \in rows : TextGreater(r.created_at, cutoff)}
    IN  {r \in match : \A q \in match : ~TextGreater(q.created_at, r.created_at)}

\* SELECT id, url FROM pending_urls WHERE sender = ? AND created_at > ?
\* ORDER BY created_at DESC LIMIT 1: the rows fetchone() may return.
SelectPending(rows, sender, cutoff) ==
    LET match == {r \in RowsOf(rows, sender) : TextGreater(r.created_at, cutoff)}
    IN  {r \in match : \A q \in match : ~TextGreater(q.created_at, r.created_at)}

\* Mutant: the DELETE of get_pending_url deletes nothing.
DeleteById_Nothing(rows, id) == rows

\* DELETE FROM pending_urls WHERE id = ?
DeleteById(rows, id) == {r \in rows : r.id # id}

\* DELETE FROM pending_urls WHERE sender = ?
DeleteBySender(rows, sender) == {r \in rows : r.sender # sender}

\* INSERT INTO pending_urls (url, sender) VALUES (?, ?): AUTOINCREMENT id,
\* created_at DEFAULT CURRENT_TIMESTAMP.
InsertPending(rows, id, url, sender, prev) ==
    rows \cup {[id |-> id, url |-> url, sender |-> sender,
                created_at |-> CurrentTimestamp(now), at |-> now, prev |-> prev]}

\* Mutant: save_pending_url without its DELETE.
SavePendingRows_InsertOnly(rows, id, url, sender) ==
    LET old == RowsOf(rows, sender)
        prev == IF old = {} THEN 0 ELSE (CHOOSE r \in old : \A q \in old : q.id <= r.id).id
    IN  InsertPending(rows, id, url, sender, prev)

\* The statements of save_pending_url, committed as one transaction.
SavePendingRows(rows, id, url, sender) ==
    LET old == RowsOf(rows, sender)
        prev == IF old = {} THEN 0 ELSE (CHOOSE r \in old : \A q \in old : q.id <= r.id).id
    IN  InsertPending(DeleteBySender(rows, sender), id, url, sender, prev)

(***************************************************************************)
(* The request handlers: h[m] is a thread of the server; it handles one    *)
(* message at a time and is idle between two messages.  conn is the state  *)
(* of the sqlite3 connection the handler has opened: "none" (no            *)
(* connection, or closed), "open", "tx" (open, inside a write transaction, *)
(* which holds the write lock of the database) or "busy" (open, and        *)
(* waiting for the write lock).                                            *)
(***************************************************************************)
Handlers == 1..NumHandlers
Ids == 1..MaxMessages

Ack == <<"ack">>
GenericFailure == <<"Sorry, something went wrong. Try again?">>
NothingSaved == <<"You haven't saved anything yet! Text me links to save them.">>

IdleHandler ==
    [pc |-> "idle", sender |-> "", body |-> <<>>, is_url |-> FALSE, url |-> None,
     conn |-> "none", start |-> 0, cutoff |-> <<>>, row |-> NoRow,
     pending_url |-> None, combined |-> <<>>, question |-> None]

\* The handler has returned: its locals are gone and the thread is free.
Done == IdleHandler

\* The text of the TwiML response the server has sent last.
Reply(text) == text
NoReply == <<>>

InitAt(times) ==
    /\ now \in times
    /\ boot = now
    /\ tz \in TZOffsets
    /\ pending_urls = {}
    /\ seq = 0
    /\ superseded = {}
    /\ returned = [i \in Ids |-> 0]
    /\ items = <<>>
    /\ h = [m \in Handlers |-> IdleHandler]
    /\ sent = NoReply
    /\ arrived = 0

\* The server starts at midnight UTC.
Init == InitAt(StartTimes)

\* The server starts at midnight or at noon UTC.
InitTTL == InitAt(TTLStartTimes)

\* The time passes.
Tick ==
    /\ now < boot + MaxTicks
    /\ now' = now + 1
    /\ UNCHANGED <<boot, tz, pending_urls, seq, superseded, returned, items, h, sent, arrived>>

\* handle_sms is entered with the form fields Body and From; the link
\* detector runs on the body.
Arrive(m, sender, body) ==
    /\ h[m].pc = "idle"
    /\ arrived < MaxMessages
    /\ arrived' = arrived + 1
    /\ \A k \in Handlers : k < m => h[k].pc # "idle"
    /\ LET d == is_url_only(body)
       IN  h' = [h EXCEPT ![m] = [@ EXCEPT !.pc = IF d[1] THEN "park" ELSE "take",
                                           !.sender = sender, !.body = body,
                                           !.is_url = d[1], !.url = d[2]]]
    /\ UNCHANGED <<now, boot, tz, pending_urls, seq, superseded, returned, items, sent>>

\* Mutant: the link-only branch parks the link and falls through to the
\* rest of the handler.
Park_FallThrough(m) ==
    /\ h[m].pc = "park"
    /\ pending_urls' = SavePendingRows(pending_urls, seq + 1, h[m].url.v, h[m].sender)
    /\ seq' = seq + 1
    /\ superseded' = superseded \cup {r.id : r \in RowsOf(pending_urls, h[m].sender)}
    /\ h' = [h EXCEPT ![m] = [@ EXCEPT !.pc = "take"]]
    /\ UNCHANGED <<now, boot, tz, returned, items, sent, arrived>>

\* The link-only branch: save_pending_url(url, sender), then the reply.
Park(m) ==
    /\ h[m].pc = "park"
    /\ pending_urls' = SavePendingRows(pending_urls, seq + 1, h[m].url.v, h[m].sender)
    /\ seq' = seq + 1
    /\ superseded' = superseded \cup {r.id : r \in RowsOf(pending_urls, h[m].sender)}
    /\ h' = [h EXCEPT ![m] = Done]
    /\ sent' = Reply(Ack)
    /\ UNCHANGED <<now, boot, tz, returned, items, arrived>>

\* get_pending_url, lines 74-77: the connection is opened and the cutoff is
\* computed from the local clock.
TakeBegin(m) ==
    /\ h[m].pc = "take"
    /\ h' = [h EXCEPT ![m] = [@ EXCEPT !.pc = "select", !.conn = "open", !.start = now,
                                       !.cutoff = IsoFormat(LocalNow - TTL)]]
    /\ UNCHANGED <<now, boot, tz, pending_urls, seq, superseded, returned, items, sent, arrived>>

\* Mutant: get_pending_url returns None without closing its connection.
TakeSelect_Unclosed(m) ==
    /\ h[m].pc = "select"
    /\ LET found == SelectPending(pending_urls, h[m].sender, h[m].cutoff)
       IN  IF found = {}
           THEN h' = [h EXCEPT ![m] = [@ EXCEPT !.pc = "classify", !.pending_url = None,
                                               !.combined = h[m].body,
                                               !.start = 0, !.cutoff = <<>>]]
           ELSE \E r \in found :
                    h' = [h EXCEPT ![m] = [@ EXCEPT !.pc = "delete", !.row = r,
                                                   !.start = 0, !.cutoff = <<>>]]
    /\ UNCHANGED <<now, boot, tz, pending_urls, seq, superseded, returned, items, sent, arrived>>

\* get_pending_url, lines 79-85 and 94-95: the SELECT and fetchone(); with
\* no row the connection is closed, the function returns None and the body
\* alone is the message.
TakeSelect(m) ==
    /\ h[m].pc = "select"
    /\ LET found == SelectPending(pending_urls, h[m].sender, h[m].cutoff)
       IN  IF found = {}
           THEN h' = [h EXCEPT ![m] = [@ EXCEPT !.pc = "classify", !.conn = "none",
                                               !.pending_url = None,
                                               !.combined = h[m].body,
                                               !.start = 0, !.cutoff = <<>>]]
           ELSE \E r \in found :
                    h' = [h EXCEPT ![m] = [@ EXCEPT !.pc = "delete", !.row = r,
                                                   !.start = 0, !.cutoff = <<>>]]
    /\ UNCHANGED <<now, boot, tz, pending_urls, seq, superseded, returned, items, sent, arrived>>

\* Mutant: get_pending_url deletes the pending rows of the sender, not the
\* row it has read.
TakeDelete_BySender(m) ==
    /\ h[m].pc = "delete"
    /\ pending_urls' = {r \in pending_urls : r.sender # h[m].sender}
    /\ returned' = [returned EXCEPT ![h[m].row.id] = @ + 1]
    /\ h' = [h EXCEPT ![m] = [@ EXCEPT !.pc = "classify", !.conn = "none", !.row = NoRow,
                                       !.pending_url = Some(h[m].row.url),
                                       !.combined = h[m].body \o <<" ">> \o h[m].row.url]]
    /\ UNCHANGED <<now, boot, tz, seq, superseded, items, sent, arrived>>

\* Mutant: get_pending_url returns the url of the row and its DELETE is
\* rolled back.
TakeDelete_RolledBack(m) ==
    /\ h[m].pc = "delete"
    /\ returned' = [returned EXCEPT ![h[m].row.id] = @ + 1]
    /\ h' = [h EXCEPT ![m] = [@ EXCEPT !.pc = "classify", !.conn = "none", !.row = NoRow,
                                       !.pending_url = Some(h[m].row.url),
                                       !.combined = h[m].body \o <<" ">> \o h[m].row.url]]
    /\ UNCHANGED <<now, boot, tz, pending_urls, seq, superseded, items, sent, arrived>>

\* get_pending_url, lines 87-92: the row is deleted by id, the transaction
\* is committed, the connection is closed and the url is returned;
\* handle_sms, lines 310-315, appends it to the body when it is not empty.
TakeDelete(m) ==
    /\ h[m].pc = "delete"
    /\ pending_urls' = DeleteById(pending_urls, h[m].row.id)
    /\ returned' = [returned EXCEPT ![h[m].row.id] = @ + 1]
    /\ h' = [h EXCEPT ![m] = [@ EXCEPT !.pc = "classify", !.conn = "none", !.row = NoRow,
                                       !.pending_url = Some(h[m].row.url),
                                       !.combined = IF h[m].row.url # <<>>
                                                    THEN h[m].body \o <<" ">> \o h[m].row.url
                                                    ELSE h[m].body]]
    /\ UNCHANGED <<now, boot, tz, seq, superseded, items, sent, arrived>>

(***************************************************************************)
(* The Classification Gateway and save_item.  A dict is a function from    *)
(* the keys that are present to optional texts (None is JSON null).        *)
(***************************************************************************)
TitleLimit == 50

Word(w) == Some(<<w>>)

\* dict.get(k) and dict.get(k, default)
Get(d, k) == IF k \in DOMAIN d THEN d[k] ELSE None
GetDefault(d, k, default) == IF k \in DOMAIN d THEN d[k] ELSE Some(default)

\* Python's truth value of an optional text.
Truthy(x) == x.some /\ x.v # <<>>

\* str(x) inside an f-string.
Str(x) == IF x.some THEN x.v ELSE <<"N", "o", "n", "e">>

\* s[:n]
Prefix(s, n) == SubSeq(s, 1, IF Len(s) < n THEN Len(s) ELSE n)

EmptyDict == [k \in {} |-> None]
TitleT == <<"t">>

\* What the model lets the gateway answer: a transport failure, text that is
\* not JSON, JSON that is not an object, and JSON objects.
ObjectOutputs ==
    { EmptyDict,
      [type |-> Word("query"), question |-> Some(<<"q">>)],
      [type |-> Word("save"), category |-> Word("content"), title |-> Some(TitleT),
       platform |-> Some(<<"p">>)],
      [type |-> Word("save"), category |-> Word("facts"), title |-> None,
       caption |-> None] }

ClassifierOutputs ==
    {[kind |-> "raise", data |-> EmptyDict], [kind |-> "nonjson", data |-> EmptyDict],
     [kind |-> "nonobject", data |-> EmptyDict]}
    \cup {[kind |-> "object", data |-> d] : d \in ObjectOutputs}

\* classify_and_extract(message_body) when the gateway answers out: the
\* exception re-raised, or the value returned.
classify_and_extract(message_body, out) ==
    CASE out.kind = "raise" -> [exc |-> TRUE, isdict |-> FALSE, data |-> EmptyDict]
      [] out.kind = "nonjson" ->
            [exc |-> FALSE, isdict |-> TRUE,
             data |-> [type |-> Word("save"), category |-> Word("facts"),
                       caption |-> Some(message_body)]]
      [] out.kind = "nonobject" -> [exc |-> FALSE, isdict |-> FALSE, data |-> EmptyDict]
      [] OTHER -> [exc |-> FALSE, isdict |-> TRUE, data |-> out.data]

\* Mutant: the first URL of the message wins over url_override.
OriginalUrl_MessageFirst(original_message, url_override) ==
    IF FirstUrl(original_message).some THEN FirstUrl(original_message) ELSE url_override

\* save_item, lines 192-194: url_override or (urls[0] if urls else None)
OriginalUrl(original_message, url_override) ==
    IF Truthy(url_override) THEN url_override ELSE FirstUrl(original_message)

\* save_item, lines 196-210: the row of the INSERT INTO items.
ItemRow(id, data, original_message, sender, url_override) ==
    [id |-> id, category |-> Get(data, "category"), title |-> Get(data, "title"),
     platform |-> Get(data, "platform"), ingredients |-> Get(data, "ingredients"),
     location |-> Get(data, "location"), event_date |-> Get(data, "event_date"),
     caption |-> Get(data, "caption"),
     original_url |-> OriginalUrl(original_message, url_override),
     original_message |-> original_message, saved_by |-> sender]

\* The INSERT fails on the NOT NULL constraint of items.category.
InsertRaises(data) == ~Get(data, "category").some

\* save_item, line 217: title = data.get('title') or data.get('caption', '')[:50];
\* slicing None raises TypeError.
TitleRaises(data) == ~Truthy(Get(data, "title")) /\ ~GetDefault(data, "caption", <<>>).some

TitleOf(data) ==
    IF Truthy(Get(data, "title")) THEN Get(data, "title").v
    ELSE Prefix(GetDefault(data, "caption", <<>>).v, TitleLimit)

\* save_item, lines 216-229: the confirmation text.
Confirmation(data) ==
    LET category == Get(data, "category")
        title == TitleOf(data)
    IN  IF category = Word("content")
        THEN <<"<check> Saved: ">> \o title \o <<" (">>
                 \o Str(GetDefault(data, "platform", <<"saved">>)) \o <<")">>
        ELSE IF category = Word("food")
        THEN <<"<check> Saved recipe: ">> \o title
        ELSE IF category = Word("events")
        THEN Strip(<<"<check> Saved event: ">> \o title \o <<" ", "-", " ">>
                       \o Str(GetDefault(data, "location", <<>>)) \o <<" ">>
                       \o Str(GetDefault(data, "event_date", <<>>)))
        ELSE <<"<check> Saved: ">> \o title \o <<"...">>

AnswerText == <<"answer">>

\* handle_sms, lines 318-342: the gateway answers; the result is a query
\* (handle_query reads the items) or is saved by save_item; any exception
\* ends in the generic failure reply.
Classify(m, out) ==
    /\ h[m].pc = "classify"
    /\ LET r == classify_and_extract(h[m].combined, out)
       IN  IF r.exc \/ ~r.isdict
           THEN /\ h' = [h EXCEPT ![m] = Done]
                /\ sent' = Reply(GenericFailure)
                /\ UNCHANGED items
           ELSE IF Get(r.data, "type") = Word("query")
           THEN IF items = <<>>
                THEN /\ h' = [h EXCEPT ![m] = Done]
                     /\ sent' = Reply(NothingSaved)
                     /\ UNCHANGED items
                ELSE /\ h' = [h EXCEPT ![m] =
                                [@ EXCEPT !.pc = "answer",
                                          !.question = GetDefault(r.data, "question", h[m].body)]]
                     /\ UNCHANGED <<items, sent>>
           ELSE IF InsertRaises(r.data)
           THEN /\ h' = [h EXCEPT ![m] = Done]
                /\ sent' = Reply(GenericFailure)
                /\ UNCHANGED items
           ELSE /\ items' = Append(items, ItemRow(Len(items) + 1, r.data, h[m].combined,
                                                  h[m].sender, h[m].pending_url))
                /\ h' = [h EXCEPT ![m] = Done]
                /\ sent' = Reply(IF TitleRaises(r.data) THEN GenericFailure
                                    ELSE Confirmation(r.data))
    /\ UNCHANGED <<now, boot, tz, pending_urls, seq, superseded, returned, arrived>>

\* Mutant: an exception of the Answer Gateway escapes the handler, which
\* ends without a reply.
Answer_Escapes(m, ok) ==
    /\ h[m].pc = "answer"
    /\ h' = [h EXCEPT ![m] = Done]
    /\ sent' = IF ok THEN Reply(AnswerText) ELSE sent
    /\ UNCHANGED <<now, boot, tz, pending_urls, seq, superseded, returned, items, arrived>>

\* Mutant: handle_query puts a label before the text of the Answer Gateway.
Answer_Labelled(m, ok) ==
    /\ h[m].pc = "answer"
    /\ h' = [h EXCEPT ![m] = Done]
    /\ sent' = Reply(IF ok THEN <<"Answer: ">> \o AnswerText ELSE GenericFailure)
    /\ UNCHANGED <<now, boot, tz, pending_urls, seq, superseded, returned, items, arrived>>

\* handle_query, lines 266-278: the Answer Gateway answers or fails.
Answer(m, ok) ==
    /\ h[m].pc = "answer"
    /\ h' = [h EXCEPT ![m] = Done]
    /\ sent' = Reply(IF ok THEN AnswerText ELSE GenericFailure)
    /\ UNCHANGED <<now, boot, tz, pending_urls, seq, superseded, returned, items, arrived>>

\* The server with one worker thread, the Classification Gateway and the
\* Answer Gateway, at one instant of the clock.
Worker == CHOOSE m \in Handlers : \A k \in Handlers : m <= k

Next ==
    \/ \E s \in Senders, b \in MessageBodies : Arrive(Worker, s, b)
    \/ Park(Worker)
    \/ TakeBegin(Worker)
    \/ TakeSelect(Worker)
    \/ TakeDelete(Worker)
    \/ \E out \in ClassifierOutputs : Classify(Worker, out)
    \/ \E ok \in BOOLEAN : Answer(Worker, ok)

Spec == Init /\ [][Next]_vars

\* The pending_urls table under concurrent handlers, at one instant of the
\* clock.  The operations on the table read neither the items nor the
\* gateway's answer, so the gateway is taken to be unreachable.
GatewayDown == [kind |-> "raise", data |-> EmptyDict]
StoreBodies == {LinkA, LinkB, Text5}

NextStore ==
    \/ \E m \in Handlers, s \in Senders, b \in StoreBodies : Arrive(m, s, b)
    \/ \E m \in Handlers : Park(m)
    \/ \E m \in Handlers : TakeBegin(m)
    \/ \E m \in Handlers : TakeSelect(m)
    \/ \E m \in Handlers : TakeDelete(m)
    \/ \E m \in Handlers : Classify(m, GatewayDown)

SpecStore == Init /\ [][NextStore]_vars

\* The pending_urls table while the time passes, with one worker thread.
NextTTL ==
    \/ Tick
    \/ \E s \in Senders, b \in StoreBodies : Arrive(Worker, s, b)
    \/ Park(Worker)
    \/ TakeBegin(Worker)
    \/ TakeSelect(Worker)
    \/ TakeDelete(Worker)
    \/ Classify(Worker, GatewayDown)

SpecTTL == InitTTL /\ [][NextTTL]_vars

\* The server with one worker thread when each gateway answers in the
\* expected shape or fails: the Classification Gateway raises, or returns a
\* query or a complete content item; the Answer Gateway answers or raises.
WellFormedOutputs ==
    {d \in ObjectOutputs :
        Get(d, "type") = Word("query") \/ Get(d, "category") = Word("content")}

NextGateway ==
    \/ \E s \in Senders, b \in MessageBodies : Arrive(Worker, s, b)
    \/ Park(Worker)
    \/ TakeBegin(Worker)
    \/ TakeSelect(Worker)
    \/ TakeDelete(Worker)
    \/ \E d \in WellFormedOutputs : Classify(Worker, [kind |-> "object", data |-> d])
    \/ Classify(Worker, GatewayDown)
    \/ \E ok \in BOOLEAN : Answer(Worker, ok)

SpecGateway == Init /\ [][NextGateway]_vars

\* save_item on every result of type save: the category is one of the four
\* of the prompt and each of title, platform, location, event_date and
\* caption is absent, null, the empty text or a text; the caption may be
\* longer than the title limit.
Categories == {"content", "food", "events", "facts"}
Fields == {"title", "platform", "location", "event_date", "caption"}
LongCaption == [i \in 1..(TitleLimit + 1) |-> "c"]

FieldValue(choice) ==
    CASE choice = "null" -> None
      [] choice = "empty" -> Some(<<>>)
      [] choice = "long" -> Some(LongCaption)
      [] OTHER -> Some(<<"x">>)

SaveChoices ==
    {c \in [Fields -> {"absent", "null", "empty", "text", "long"}] :
        \A f \in Fields : c[f] = "long" => f = "caption"}

SaveData(category, c) ==
    [k \in {"type", "category"} \cup {f \in Fields : c[f] # "absent"} |->
        IF k = "type" THEN Word("save")
        ELSE IF k = "category" THEN Word(category)
        ELSE FieldValue(c[k])]

SaveOutputs ==
    {[kind |-> "object", data |-> SaveData(category, c)] :
        category \in Categories, c \in SaveChoices}

\* The worker has found no pending link for the text message of a sender
\* and waits for the Classification Gateway.
InitSave ==
    /\ now \in StartTimes
    /\ boot = now
    /\ tz \in TZOffsets
    /\ pending_urls = {}
    /\ seq = 0
    /\ superseded = {}
    /\ returned = [i \in Ids |-> 0]
    /\ items = <<>>
    /\ \E s \in Senders :
          h = [m \in Handlers |->
                 IF m = Worker
                 THEN [IdleHandler EXCEPT !.pc = "classify", !.sender = s,
                                          !.body = Text5, !.combined = Text5]
                 ELSE IdleHandler]
    /\ sent = NoReply
    /\ arrived = 1

NextSave == \E out \in SaveOutputs : Classify(Worker, out)

SpecSave == InitSave /\ [][NextSave]_vars

\* The pending_urls table statement by statement, with the write lock of
\* the database file.  The first DELETE or INSERT of a connection begins a
\* transaction and takes the write lock; the lock is one for the whole
\* file, whatever the sender of the rows.  A connection that finds the lock
\* taken waits in SQLite's busy handler and tries again.
LockFree(m) == \A k \in Handlers \ {m} : h[k].conn # "tx"

\* save_pending_url, lines 100-104: the connection is opened and the DELETE
\* of the sender's rows is executed inside a new transaction, or waits.
SaveDelete(m) ==
    /\ h[m].pc = "park"
    /\ h[m].conn = "busy" => LockFree(m)
    /\ h' = [h EXCEPT ![m] = IF LockFree(m)
                             THEN [@ EXCEPT !.pc = "insert", !.conn = "tx"]
                             ELSE [@ EXCEPT !.conn = "busy"]]
    /\ UNCHANGED <<now, boot, tz, pending_urls, seq, superseded, returned, items, sent, arrived>>

\* save_pending_url, lines 107-112, and handle_sms, lines 301-304: the
\* INSERT, the commit, which makes the transaction visible and releases the
\* lock, the close and the reply.
SaveCommit(m) ==
    /\ h[m].pc = "insert"
    /\ pending_urls' = SavePendingRows(pending_urls, seq + 1, h[m].url.v, h[m].sender)
    /\ seq' = seq + 1
    /\ superseded' = superseded \cup {r.id : r \in RowsOf(pending_urls, h[m].sender)}
    /\ h' = [h EXCEPT ![m] = Done]
    /\ sent' = Reply(Ack)
    /\ UNCHANGED <<now, boot, tz, returned, items, arrived>>

\* get_pending_url, lines 87-92, under the lock: the DELETE waits while
\* another connection is inside a write transaction.
TakeDeleteLocked(m) ==
    /\ h[m].pc = "delete"
    /\ h[m].conn = "busy" => LockFree(m)
    /\ IF LockFree(m)
       THEN TakeDelete(m)
       ELSE /\ h' = [h EXCEPT ![m] = [@ EXCEPT !.conn = "busy"]]
            /\ UNCHANGED <<now, boot, tz, pending_urls, seq, superseded, returned,
                           items, sent, arrived>>

NextLock ==
    \/ \E m \in Handlers, s \in Senders, b \in StoreBodies : Arrive(m, s, b)
    \/ \E m \in Handlers : SaveDelete(m)
    \/ \E m \in Handlers : SaveCommit(m)
    \/ \E m \in Handlers : TakeBegin(m)
    \/ \E m \in Handlers : TakeSelect(m)
    \/ \E m \in Handlers : TakeDeleteLocked(m)
    \/ \E m \in Handlers : Classify(m, GatewayDown)

SpecLock == Init /\ [][NextLock]_vars

\* The link detector on every text: handle_sms is entered and is_url_only
\* runs on the body.
NextDetect ==
    /\ h[Worker].pc = "idle"
    /\ \E s \in Senders, b \in DetectBodies : Arrive(Worker, s, b)

SpecDetect == Init /\ [][NextDetect]_vars

(***************************************************************************)
(* Properties of the pending_urls table.                                   *)
(***************************************************************************)

\* The handler m takes the step that leaves the SELECT of get_pending_url.
SelectStep(m) == h[m].pc = "select" /\ h'[m].pc # "select"

\* The handler m takes the step that deletes the row it has read.
DeleteStep(m) == h[m].pc = "delete" /\ h'[m].pc = "classify"

\* The handler m takes the step that parks its link and ends.
ParkStep(m) == h[m].pc = "park" /\ h'[m].pc = "idle"

\* A row is live at time t when its age is within the TTL.
LiveAt(r, t) == t - r.at <= TTL

\* C1: at-most-one-consumption: the url of a pending row is returned by at
\* most one call of get_pending_url, whatever the interleaving of the SELECT
\* and DELETE steps of concurrent calls.
C1_AtMostOneConsumption == \A i \in Ids : returned[i] <= 1

\* C2: TTL, live side: a get_pending_url that starts less than TTL after the
\* insert of the sender's pending row finds that row.
C2_LiveWithinTTL ==
    [][\A m \in Handlers :
          SelectStep(m) =>
              \A r \in RowsOf(pending_urls, h[m].sender) :
                  h[m].start - r.at < TTL => h'[m].row = r]_vars

\* C3: TTL, expiry side: a get_pending_url that starts more than TTL after
\* the insert of the sender's pending row returns none, so a row it finds is
\* at most TTL old.
C3_NoneAfterTTL ==
    [][\A m \in Handlers :
          (SelectStep(m) /\ h'[m].pc = "delete") =>
              h[m].start - h'[m].row.at <= TTL]_vars

\* C4: in every reachable state the pending_urls table holds at most one
\* row (live or expired) per sender.
C4_AtMostOnePerSender ==
    \A s \in Senders : Cardinality(RowsOf(pending_urls, s)) <= 1

\* A sender has parked a link over an earlier, unconsumed one, and holds
\* one row.
C4_Witness ==
    \E r \in pending_urls : r.prev # 0 /\ RowsOf(pending_urls, r.sender) = {r}

\* C5: replacement: after park(s, L1) and park(s, L2) with no take in
\* between, a take within the TTL of the second park finds the row of L2.
C5_ReplacementReturnsNewest ==
    [][\A m \in Handlers :
          SelectStep(m) =>
              \A r \in RowsOf(pending_urls, h[m].sender) :
                  (r.prev # 0 /\ h[m].start - r.at < TTL) =>
                      (h'[m].pc = "delete" /\ h'[m].row.url = r.url /\ h'[m].row.id # r.prev)]_vars

\* C6: no lost update on replacement: a row that was inserted is still in
\* the table, or was superseded by a later park of its sender, or its url
\* was returned by a take; a take never deletes a row it did not read.
C6_NoLostUpdate ==
    \A i \in 1..seq :
        \/ \E r \in pending_urls : r.id = i
        \/ i \in superseded
        \/ returned[i] > 0

\* A take read row i, a park of the same sender superseded it before the
\* take's DELETE, the take has returned, and the newer row is still pending.
C6_Witness ==
    \E i \in Ids :
        /\ returned[i] > 0
        /\ i \in superseded
        /\ \E r \in pending_urls : r.prev = i

SaveStep(m) == h[m].pc = "classify" /\ Len(items') = Len(items) + 1

\* C8: link-only handling: every step of the handler of a message that the
\* link detector reports as link-only is the one step that parks the link
\* for the sender, replies with the acknowledgment and ends the handler; the
\* handler never reaches get_pending_url or the Classification Gateway and
\* the items are unchanged.
C8_LinkOnlyHandling ==
    [][\A m \in Handlers :
          (h[m].pc # "idle" /\ h'[m] # h[m] /\ is_url_only(h[m].body)[1]) =>
              /\ ParkStep(m)
              /\ sent' = Ack
              /\ items' = items
              /\ returned' = returned
              /\ \E r \in pending_urls' :
                     /\ r.id \notin {q.id : q \in pending_urls}
                     /\ r.sender = h[m].sender
                     /\ Some(r.url) = is_url_only(h[m].body)[2]]_vars

\* A link-only message has been acknowledged: its link is parked and no
\* item has been saved.
C8_Witness ==
    /\ sent = Ack
    /\ items = <<>>
    /\ \A m \in Handlers : h[m].pc = "idle"
    /\ \E r \in pending_urls : r.url = LinkA

\* C9: combination: the message given to the Classification Gateway is the
\* body followed by a space and the pending link when get_pending_url has
\* returned one, else the body; a saved item has that message as
\* original_message, the sender as saved_by, and as original_url the
\* pending link when there is one, else the first URL of the body, else none.
C9_Combination ==
    [][\A m \in Handlers :
          /\ DeleteStep(m) =>
                /\ h'[m].pending_url = Some(h[m].row.url)
                /\ h'[m].combined = h[m].body \o <<" ">> \o h[m].row.url
          /\ (SelectStep(m) /\ h'[m].pc = "classify") =>
                /\ h'[m].pending_url = None
                /\ h'[m].combined = h[m].body
          /\ SaveStep(m) =>
                LET item == items'[Len(items')]
                    body == h[m].body
                    P == h[m].pending_url
                IN  /\ item.saved_by = h[m].sender
                    /\ P.some =>
                          /\ item.original_message = body \o <<" ">> \o P.v
                          /\ item.original_url = P
                    /\ ~P.some =>
                          /\ item.original_message = body
                          /\ item.original_url =
                                IF FindAll(body) = <<>> THEN None ELSE Some(FindAll(body)[1])]_vars

\* An item is saved from a body that embeds one link and a pending link
\* that is another: the pending link is its original_url.
C9_Witness ==
    \E k \in 1..Len(items) :
        /\ items[k].original_message = Text5 \o <<" ">> \o LinkB \o <<" ">> \o LinkA
        /\ items[k].original_url = Some(LinkA)

\* The answers of the gateway that are not JSON, or are JSON of another
\* shape than the expected one: no object, or an object without type and
\* category.
Unparseable(out) ==
    \/ out.kind \in {"nonjson", "nonobject"}
    \/ out.kind = "object" /\ "type" \notin DOMAIN out.data /\ "category" \notin DOMAIN out.data

\* C10: degrade-to-save: when the gateway's answer is unparseable, the
\* handler saves one item with category facts and the combined message as
\* caption, and its reply begins with the save confirmation.
C10_DegradeToSave ==
    [][\A m \in Handlers : \A out \in ClassifierOutputs :
          (Unparseable(out) /\ Classify(m, out)) =>
              /\ Len(items') = Len(items) + 1
              /\ items'[Len(items')].category = Word("facts")
              /\ items'[Len(items')].caption = Some(h[m].combined)
              /\ sent' # <<>>
              /\ Head(sent') = "<check> Saved: "]_vars

\* C11: gateway failure: when the Classification Gateway or the Answer
\* Gateway raises, the handler ends with the generic failure message as its
\* reply and no item is saved; every handler ends with a reply, and sends
\* none before it ends.
C11_GatewayFailure ==
    [][\A m \in Handlers :
          /\ Classify(m, GatewayDown) =>
                (h'[m] = Done /\ sent' = GenericFailure /\ items' = items)
          /\ Answer(m, FALSE) =>
                (h'[m] = Done /\ sent' = GenericFailure /\ items' = items)
          /\ (h[m].pc # "idle" /\ h'[m] # h[m]) =>
                IF h'[m].pc = "idle" THEN sent' # NoReply ELSE sent' = sent]_vars

\* After an item was saved a gateway has failed: the handler has ended and
\* the reply is the generic failure message.
C11_Witness ==
    /\ sent = GenericFailure
    /\ items # <<>>
    /\ \A m \in Handlers : h[m].pc = "idle"

\* The title the confirmation of an item shows: its title, or else the
\* first 50 characters of its caption.
ShownTitle(item) ==
    IF Truthy(item.title) THEN item.title.v
    ELSE IF item.caption.some THEN Prefix(item.caption.v, TitleLimit)
    ELSE <<>>

\* The beginning of the confirmation of a category.
ConfirmationHead(category) ==
    IF category = Word("food") THEN "<check> Saved recipe: "
    ELSE IF category = Word("events") THEN "<check> Saved event: "
    ELSE "<check> Saved: "

\* C12: a persisted save is always confirmed: when the handler has inserted
\* an item, its reply is not the generic failure message but the
\* confirmation of the item's category followed by the item's title, the
\* title falling back to the first 50 characters of the caption.
C12_PersistedSaveConfirmed ==
    [][\A m \in Handlers :
          SaveStep(m) =>
              LET item == items'[Len(items')]
                  shown == <<ConfirmationHead(item.category)>> \o ShownTitle(item)
              IN  /\ sent' # GenericFailure
                  /\ Len(sent') >= Len(shown)
                  /\ SubSeq(sent', 1, Len(shown)) = shown]_vars

\* The gateway has classified the message as a query.
IsQuery(out) == out.kind = "object" /\ Get(out.data, "type") = Word("query")

\* C13: query with empty repository: when the message is classified as a
\* query and the items table is empty, the reply is the fixed "nothing saved
\* yet" message and the handler ends without waiting on the Answer Gateway;
\* a handler waits on the Answer Gateway only when the table is not empty,
\* and the reply is then the text the Answer Gateway returns.
C13_QueryReply ==
    [][\A m \in Handlers :
          /\ \A out \in ClassifierOutputs :
                (IsQuery(out) /\ Classify(m, out)) =>
                    IF items = <<>>
                    THEN h'[m] = Done /\ sent' = NothingSaved
                    ELSE h'[m].pc = "answer" /\ sent' = sent
          /\ (h[m].pc # "answer" /\ h'[m].pc = "answer") => items # <<>>
          /\ Answer(m, TRUE) => (h'[m] = Done /\ sent' = AnswerText)]_vars

\* A query on the empty items table has been answered with the fixed
\* message.
C13_Witness ==
    /\ sent = NothingSaved
    /\ items = <<>>
    /\ arrived > 0
    /\ \A m \in Handlers : h[m].pc = "idle"

\* The handler b waits for the write lock that the handler a holds.
WaitsOn(b, a) == h[b].conn = "busy" /\ h[a].conn = "tx"

\* C14: sender independence: in no reachable state does a save_pending_url
\* or get_pending_url for one sender wait on a lock held by a
\* save_pending_url or get_pending_url for another sender.
C14_SenderIndependence ==
    \A a \in Handlers, b \in Handlers :
        WaitsOn(b, a) => h[a].sender = h[b].sender

\* A URL of the text s begins at position i.
UrlAt(s, i) == i \in 1..(Len(s) - 1) /\ s[i] = "U" /\ s[i + 1] # " "

\* The position k of the text s lies inside a URL: a URL begins at or
\* before k and no whitespace separates the two positions.
InUrl(s, k) == \E i \in 1..k : UrlAt(s, i) /\ \A t \in i..k : s[t] # " "

\* The text s with its URL occurrences removed.
WithoutUrls(s) ==
    LET keep == SelectSeq([k \in 1..Len(s) |-> k], LAMBDA k : ~InUrl(s, k))
    IN  [n \in 1..Len(keep) |-> s[keep[n]]]

\* The first URL of the text s: it begins at the first position where a URL
\* begins and ends before the next whitespace.
LeftmostUrl(s) ==
    LET i == CHOOSE i \in 1..Len(s) : UrlAt(s, i) /\ \A t \in 1..(i - 1) : ~UrlAt(s, t)
        j == CHOOSE j \in i..Len(s) :
                 /\ \A t \in i..j : s[t] # " "
                 /\ j < Len(s) => s[j + 1] = " "
    IN  SubSeq(s, i, j)

\* C15: link detector: is_url_only reports link-only exactly when the
\* message contains a URL and the message without its URLs, trimmed, has at
\* most 4 characters; the link is the first URL of the message when there
\* is one, else none.
C15_LinkDetector ==
    \A m \in Handlers :
        h[m].pc # "idle" =>
            LET body == h[m].body
                hasUrl == \E i \in 1..Len(body) : UrlAt(body, i)
            IN  /\ h[m].is_url = (hasUrl /\ TextLen(Strip(WithoutUrls(body))) <= 4)
                /\ h[m].url = IF hasUrl THEN Some(LeftmostUrl(body)) ELSE None

\* A message of a link followed by a word of four letters has been
\* detected as link-only.
C15_Witness ==
    \E m \in Handlers :
        /\ h[m].body = LinkA \o <<" ", "a", "a", "a", "a">>
        /\ h[m].is_url
        /\ h[m].url = Some(LinkA)

\* C16: content confirmation text: when an item of category content with a
\* title is saved, the reply is "<check> Saved: {title} ({p})", where p is
\* the platform when it is a non-empty text and "saved" when the platform
\* is absent or null.
C16_ContentConfirmation ==
    [][\A m \in Handlers :
          SaveStep(m) =>
              LET item == items'[Len(items')]
                  p == IF item.platform.some THEN item.platform.v ELSE <<"saved">>
              IN  (/\ item.category = Word("content")
                   /\ Truthy(item.title)
                   /\ item.platform # Some(<<>>)) =>
                      sent' = <<"<check> Saved: ">> \o item.title.v \o <<" (">> \o p \o <<")">>]_vars

\* The handler m waits for the Classification Gateway or the Answer Gateway.
WaitsOnGateway(m) == h[m].pc \in {"classify", "answer"}

\* C17: no store lock across gateway calls: a handler that waits on a
\* gateway has no open connection, transaction or lock on the database; the
\* DELETE of get_pending_url is committed, and its connection closed, when
\* the classification starts, and the read of the items is over when the
\* handler waits on the Answer Gateway.
C17_NoStoreAcrossGateway ==
    [][\A m \in Handlers :
          /\ WaitsOnGateway(m)' => h'[m].conn = "none"
          /\ DeleteStep(m) =>
                (WaitsOnGateway(m)' /\ \A r \in pending_urls' : r.id # h[m].row.id)]_vars

\* A handler that has consumed a pending link and read the items waits on
\* the Answer Gateway with its connections closed.
C17_Witness ==
    \E m \in Handlers :
        /\ h[m].pc = "answer"
        /\ h[m].pending_url.some
        /\ h[m].conn = "none"
        /\ pending_urls = {}

\* The consumed link of the handler m is gone: the step saves no item and
\* leaves no pending row of the sender.
LinkGone(m) ==
    /\ items' = items
    /\ RowsOf(pending_urls', h[m].sender) = {}

\* C18: consumption is unconditional and not undone: every message that is
\* not link-only goes through get_pending_url before it is classified; a
\* row whose url get_pending_url has returned is never in the table again;
\* and when the message is classified as a query, or a gateway fails, the
\* link that was consumed for it is in no saved item and not parked again.
C18_ConsumptionNotUndone ==
    [][\A m \in Handlers :
          /\ (h[m].pc = "idle" /\ h'[m].pc # "idle" /\ ~is_url_only(h'[m].body)[1]) =>
                h'[m].pc = "take"
          /\ (h[m].pc # "classify" /\ h'[m].pc = "classify") =>
                (SelectStep(m) \/ DeleteStep(m))
          /\ \A i \in Ids :
                (returned[i] > 0 \/ returned'[i] > 0) =>
                    (returned'[i] >= returned[i] /\ \A r \in pending_urls' : r.id # i)
          /\ \A out \in ClassifierOutputs :
                (/\ h[m].pending_url.some
                 /\ out = GatewayDown \/ IsQuery(out)
                 /\ Classify(m, out)) => LinkGone(m)
          /\ \A ok \in BOOLEAN :
                (h[m].pending_url.some /\ Answer(m, ok)) => LinkGone(m)]_vars

\* The link a sender had parked was consumed for the sender's next message,
\* the Classification Gateway failed, and the link is in neither table.
C18_Witness ==
    /\ arrived = 2
    /\ \E i \in Ids : returned[i] > 0
    /\ sent = GenericFailure
    /\ pending_urls = {}
    /\ items = <<>>
    /\ \A m \in Handlers : h[m].pc = "idle"

\* C19: per-sender frame: the steps of save_pending_url and get_pending_url
\* for a sender leave the pending rows of every other sender and the items
\* unchanged; the row get_pending_url reads, and whose url it returns to be
\* combined with the message, was parked by the sender of the message.
C19_PerSenderFrame ==
    [][\A m \in Handlers :
          /\ (ParkStep(m) \/ SelectStep(m) \/ DeleteStep(m)) =>
                /\ \A s \in Senders \ {h[m].sender} :
                       RowsOf(pending_urls', s) = RowsOf(pending_urls, s)
                /\ items' = items
          /\ (SelectStep(m) /\ h'[m].pc = "delete") => h'[m].row.sender = h[m].sender
          /\ DeleteStep(m) =>
                /\ h[m].row.sender = h[m].sender
                /\ h'[m].pending_url = Some(h[m].row.url)]_vars

\* While a link of A is pending and an item is saved, get_pending_url has
\* returned none for a message of B, and the row of A is still in the table.
C19_Witness ==
    \E m \in Handlers :
        /\ h[m].pc = "classify"
        /\ h[m].sender = "B"
        /\ ~h[m].pending_url.some
        /\ items # <<>>
        /\ \E r \in pending_urls : r.sender = "A"

====
